---- MODULE Spec2Model ----
(***************************************************************************)
(* Model of my_lambda_function/index.py: a Lambda handler that GETs a JSON *)
(* array of todo records, groups them by "completed" with pandas and       *)
(* returns the per-group count of non-null "id" values.                    *)
(*                                                                         *)
(* JSON scalars are modelled by their literal text ("true", "false",       *)
(* "null", "1"); a key that is missing from a record is ABSENT.  A Python  *)
(* exception is modelled as an outcome with status "raised" and the name   *)
(* of the exception class.                                                 *)
(***************************************************************************)
EXTENDS Integers, Sequences, FiniteSets, TLC

VARIABLES
    environ,    \* os.environ.get('URI') of the process, UNSET when not set
    URI,        \* the module global URI (index.py line 6)
    loadEnv,    \* history: environ at the time the module was loaded
    upstream,   \* what the HTTP server at the URL answers to a GET
    calls       \* one record per invocation of handler, in the order they
                \* started: in flight inside requests.get (pc = "get") or
                \* finished (pc = "done")

vars == <<environ, URI, loadEnv, upstream, calls>>

(***************************************************************************)
(* Bounds of the model.                                                    *)
(***************************************************************************)
MaxLen == 2      \* longest upstream array
MaxCalls == 2    \* invocations per process

(***************************************************************************)
(* Configuration: URI = os.getenv('URI', default)                          *)
(***************************************************************************)
UNSET == "<unset>"
DEFAULT_URI == "https://jsonplaceholder.typicode.com/todos"
EnvValues == {UNSET, "", "https://example.test/a", "https://example.test/b"}

\* A plausible slip: `os.getenv(key) or default`, which also replaces an
\* empty value by the default.
getenvOrDefault(env, default) == IF env = UNSET \/ env = "" THEN default ELSE env

\* os.getenv(key, default): the value when the key is set (even to the empty
\* string), the default only when it is not set.
getenv(env, default) == IF env = UNSET THEN default ELSE env

\* Line 6, evaluated when the module is imported.
ResolveURI(env) == getenv(env, DEFAULT_URI)

(***************************************************************************)
(* Upstream responses                                                      *)
(***************************************************************************)
ABSENT == "<absent>"
NULL == "null"
CompletedValues == {"true", "false", NULL, ABSENT}
IdValues == {"1", NULL, ABSENT}
Records == [id : IdValues, completed : CompletedValues]
Bodies == UNION {[1..n -> Records] : n \in 0..MaxLen}
StatusCodes == {200, 404}

Unreachable == [reachable |-> FALSE, status |-> 0, wellformed |-> FALSE, body |-> <<>>]
\* The response field of an invocation that has received none (yet).
NoResponse == [reachable |-> FALSE, status |-> -1, wellformed |-> FALSE, body |-> <<>>]
Responses ==
    {Unreachable}
    \cup {[reachable |-> TRUE, status |-> s, wellformed |-> FALSE, body |-> <<>>] :
            s \in StatusCodes}
    \cup {[reachable |-> TRUE, status |-> s, wellformed |-> TRUE, body |-> b] :
            s \in StatusCodes, b \in Bodies}

\* The array of the documented example (two completed records, one not),
\* served with status 200.  The ids of the example differ; count() only
\* tests whether an id is null.
ExampleResponse ==
    [reachable |-> TRUE, status |-> 200, wellformed |-> TRUE,
     body |-> << [id |-> "1", completed |-> "true"],
                 [id |-> "1", completed |-> "false"],
                 [id |-> "1", completed |-> "true"] >>]

Events == {"e1", "e2"}
Contexts == {"c1", "c2"}

(***************************************************************************)
(* requests.get(URI).json()                                                *)
(***************************************************************************)
\* requests refuses a URL without a scheme (MissingSchema) before any
\* network traffic.
ValidURL(url) == url # ""

\* The URL handler passes to requests.get, read from the current environment:
\* what the code would do if it resolved the URL inside handler.
FetchURLFromEnviron == ResolveURI(environ)

\* The URL handler passes to requests.get: the module global.
FetchURL == URI

\* The exception requests.get(url) raises before it sends anything, "" when
\* the request goes out.
SendRaises(url) == IF ~ValidURL(url) THEN "MissingSchema" ELSE ""

\* The exception requests.get raises while it waits for the answer, "" when
\* a response arrives.  The status code is not inspected: there is no
\* raise_for_status().
ReceiveRaises(net) == IF ~net.reachable THEN "ConnectionError" ELSE ""

\* The exception Response.json() raises, "" when the body parses.
JsonRaises(net) == IF ~net.wellformed THEN "JSONDecodeError" ELSE ""

(***************************************************************************)
(* pandas                                                                  *)
(***************************************************************************)
Cell(v) == IF v = ABSENT THEN "NaN" ELSE IF v = NULL THEN "None" ELSE v
isna(v) == v \in {"NaN", "None"}

\* pandas.DataFrame(list of dicts): the columns are the keys that occur in
\* some record; a record without the key gets NaN, a JSON null is None.
DataFrame(resp) ==
    [columns |-> {k \in {"id", "completed"} :
                    \E i \in 1..Len(resp) : resp[i][k] # ABSENT},
     rows |-> [i \in 1..Len(resp) |->
                 [id |-> Cell(resp[i].id), completed |-> Cell(resp[i].completed)]]]

\* frame.groupby(by)[col] raises KeyError when either column does not exist.
GroupbyRaises(frame, by, col) ==
    IF by \notin frame.columns THEN "KeyError"
    ELSE IF col \notin frame.columns THEN "KeyError"
    ELSE ""

\* The group keys of frame.groupby(by): the distinct values of the column,
\* null keys dropped (dropna=True is the default).
GroupKeys(frame, by) ==
    {frame.rows[i][by] : i \in DOMAIN frame.rows} \ {"NaN", "None"}

\* GroupBy.size(): rows per group, null or not.
GroupSize(frame, by, col) ==
    [k \in GroupKeys(frame, by) |->
        Cardinality({i \in DOMAIN frame.rows : frame.rows[i][by] = k})]

\* frame.groupby(by)[col].count().to_dict(): per group, the rows whose col
\* is not null.
GroupCount(frame, by, col) ==
    [k \in GroupKeys(frame, by) |->
        Cardinality({i \in DOMAIN frame.rows :
                        frame.rows[i][by] = k /\ ~isna(frame.rows[i][col])})]

(***************************************************************************)
(* handler                                                                 *)
(***************************************************************************)
EmptyMap == [k \in {} |-> 0]
Raise(exc) == [status |-> "raised", error |-> exc, CompletedCount |-> EmptyMap]
Return(counts) == [status |-> "returned", error |-> "", CompletedCount |-> counts]

Pending == [status |-> "pending", error |-> "", CompletedCount |-> EmptyMap]

\* Lines 10-13 from the moment the GET is on the wire: the wait for the
\* answer, .json(), the frame, the group count and the return.
Aggregate(net) ==
    IF ReceiveRaises(net) # "" THEN Raise(ReceiveRaises(net))
    ELSE IF JsonRaises(net) # "" THEN Raise(JsonRaises(net))
    ELSE LET frame == DataFrame(net.body) IN
         IF GroupbyRaises(frame, "completed", "id") # ""
         THEN Raise(GroupbyRaises(frame, "completed", "id"))
         ELSE Return(GroupCount(frame, "completed", "id"))

\* A handler that reads its event (fails on an event without the field it
\* looks up).
handlerReadsEvent(event, context, net) ==
    IF event = "e2" THEN Raise("KeyError") ELSE Aggregate(net)

\* A handler that swallows every error and answers an empty tally.
handlerWithFallback(event, context, net) ==
    IF Aggregate(net).status = "raised" THEN Return(EmptyMap) ELSE Aggregate(net)

\* def handler(event, context), once the answer net is in: event and context
\* are not used.
handler(event, context, net) == Aggregate(net)

\* The GET requests handler put on the network.
Fetched(url) == IF ValidURL(url) THEN <<url>> ELSE <<>>

(***************************************************************************)
(* State machine                                                           *)
(***************************************************************************)
InFlight == {n \in DOMAIN calls : calls[n].pc = "get"}
Finished == {n \in DOMAIN calls : calls[n].pc = "done"}

TypeOK ==
    /\ environ \in EnvValues
    /\ loadEnv \in EnvValues
    /\ upstream \in Responses \cup {ExampleResponse}
    /\ Len(calls) <= MaxCalls
    /\ \A n \in DOMAIN calls : calls[n].pc \in {"get", "done"}

\* The process right after `import index` with URI not set in its
\* environment, in front of any upstream.
Init ==
    /\ environ = UNSET
    /\ loadEnv = environ
    /\ URI = ResolveURI(environ)
    /\ upstream \in Responses
    /\ calls = <<>>

\* The process right after `import index` under any environment, in front
\* of an upstream that serves the example response.
InitEnv ==
    /\ environ \in EnvValues
    /\ loadEnv = environ
    /\ URI = ResolveURI(environ)
    /\ upstream = ExampleResponse
    /\ calls = <<>>

\* handler(event, context) up to the point where requests.get blocks on the
\* network: it reads the global URI and sends the GET.  A URL that requests
\* refuses ends the invocation here.  Other invocations of the process may
\* be in flight (threads blocked in requests.get); `overlapped` records
\* whether one was when this invocation sent its GET.
Start(event, context) ==
    /\ Len(calls) < MaxCalls
    /\ LET url == FetchURL
           sent == SendRaises(url) = ""
           rec == [event |-> event, context |-> context, environ |-> environ,
                   url |-> url, fetched |-> Fetched(url),
                   pc |-> IF sent THEN "get" ELSE "done",
                   overlapped |-> sent /\ InFlight # {},
                   resp |-> NoResponse,
                   out |-> IF sent THEN Pending ELSE Raise(SendRaises(url))]
       IN  calls' = Append(calls, rec)
    /\ UNCHANGED <<environ, URI, loadEnv, upstream>>

\* The rest of invocation n: the answer arrives (or the connection fails),
\* then .json(), pandas and the return run.
Finish(n) ==
    /\ n \in InFlight
    /\ calls' = [calls EXCEPT ![n] =
                   [calls[n] EXCEPT
                      !.pc = "done",
                      !.resp = upstream,
                      !.out = handler(calls[n].event, calls[n].context, upstream)]]
    /\ UNCHANGED <<environ, URI, loadEnv, upstream>>

\* os.environ['URI'] = v, by the host process, at any time.
Putenv(v) ==
    /\ v # UNSET
    /\ v # environ
    /\ environ' = v
    /\ UNCHANGED <<URI, loadEnv, upstream, calls>>

\* del os.environ['URI']
Unsetenv ==
    /\ environ # UNSET
    /\ environ' = UNSET
    /\ UNCHANGED <<URI, loadEnv, upstream, calls>>

Next ==
    \/ \E e \in Events, c \in Contexts : Start(e, c)
    \/ \E n \in 1..MaxCalls : Finish(n)

NextEnv ==
    \/ \E e \in Events, c \in Contexts : Start(e, c)
    \/ \E n \in 1..MaxCalls : Finish(n)
    \/ \E v \in EnvValues : Putenv(v)
    \/ Unsetenv

Spec == Init /\ [][Next]_vars
SpecEnv == InitEnv /\ [][NextEnv]_vars

(***************************************************************************)
(* Vocabulary of the properties                                            *)
(***************************************************************************)
Returned(c) == c.pc = "done" /\ c.out.status = "returned"
GotArray(c) == c.pc = "done" /\ c.resp.reachable /\ c.resp.wellformed
Tally(c) == c.out.CompletedCount
Booleans == {"true", "false"}
RowsWith(c, v) == {i \in 1..Len(c.resp.body) : c.resp.body[i].completed = v}
HasId(r) == r.id \notin {NULL, ABSENT}
WellTyped(c) ==
    \A i \in 1..Len(c.resp.body) :
        HasId(c.resp.body[i]) /\ c.resp.body[i].completed \in Booleans
TallySum(c) ==
    LET m == Tally(c)
        at(k) == IF k \in DOMAIN m THEN m[k] ELSE 0
    IN  at("true") + at("false") + at(NULL) + at(ABSENT) + at("NaN") + at("None")
ConfiguredURL(env) == IF env = UNSET THEN DEFAULT_URI ELSE env

\* C1: for every upstream array whose records all have a non-null id and a
\* boolean completed, handler returns a mapping with exactly one key per
\* completed value that occurs, mapped to the number of records with it.
C1_TallyPerValue ==
    \A n \in Finished :
        LET c == calls[n] IN
        (GotArray(c) /\ WellTyped(c)) =>
            /\ Returned(c)
            /\ DOMAIN Tally(c) = {v \in Booleans : RowsWith(c, v) # {}}
            /\ \A v \in DOMAIN Tally(c) : Tally(c)[v] = Cardinality(RowsWith(c, v))

\* C2: whenever handler returns a result, the counts of the returned mapping
\* sum to the number of input records.
C2_SumEqualsRecords ==
    \A n \in Finished :
        Returned(calls[n]) => TallySum(calls[n]) = Len(calls[n].resp.body)

\* C3: on the empty JSON array handler returns an empty mapping and does
\* not fail.
C3_EmptyArray ==
    \A n \in Finished :
        (GotArray(calls[n]) /\ calls[n].resp.status = 200 /\ calls[n].resp.body = <<>>) =>
            (Returned(calls[n]) /\ Tally(calls[n]) = EmptyMap)

\* C4: when the server answers with a non-200 status the invocation fails
\* and returns no result, whatever the body.
C4_Non200Fails ==
    \A n \in Finished :
        (calls[n].resp.reachable /\ calls[n].resp.status # 200) => ~Returned(calls[n])

\* C5: on a network error or a body that is not valid JSON the invocation
\* fails with the error, returns no result (no partial or fallback data)
\* and has made exactly one GET (no retry).
C5_ErrorsPropagate ==
    \A n \in Finished :
        LET c == calls[n] IN
        (c.resp # NoResponse /\ (~c.resp.reachable \/ ~c.resp.wellformed)) =>
            /\ c.out.status = "raised"
            /\ c.out.error = (IF c.resp.reachable THEN "JSONDecodeError" ELSE "ConnectionError")
            /\ Tally(c) = EmptyMap
            /\ Len(c.fetched) = 1

C5_Witness ==
    \E n \in Finished :
        /\ calls[n].resp.reachable /\ ~calls[n].resp.wellformed
        /\ calls[n].resp.status = 200
        /\ calls[n].out.error = "JSONDecodeError"

\* C6 (as stated): the URL an invocation fetches is the value of the URI
\* variable if it is set, the default when it is unset, read as the
\* variable stands when the invocation starts.
C6_CurrentEnviron ==
    \A n \in DOMAIN calls :
        /\ calls[n].url = ConfiguredURL(calls[n].environ)
        /\ \A k \in DOMAIN calls[n].fetched :
              calls[n].fetched[k] = ConfiguredURL(calls[n].environ)

\* C6 (amended): the URL an invocation fetches is the value the URI variable
\* had when the module was loaded if it was set then, the default if it was
\* unset then; no other URL is ever fetched.
C6_LoadTimeEnviron ==
    \A n \in DOMAIN calls :
        /\ calls[n].url = ConfiguredURL(loadEnv)
        /\ \A k \in DOMAIN calls[n].fetched :
              calls[n].fetched[k] = ConfiguredURL(loadEnv)

C6_Witness ==
    \E n \in Finished :
        /\ loadEnv \notin {UNSET, ""}
        /\ calls[n].environ = UNSET
        /\ calls[n].fetched = <<loadEnv>>
        /\ Returned(calls[n])

\* C7: a record whose completed is missing or null is grouped under a
\* null/missing key of its own: when such a record is in the array, the
\* returned mapping has a key for it whose count covers those records.
C7_NullGroupKept ==
    \A n \in Finished :
        LET c == calls[n]
            nulls == RowsWith(c, NULL) \cup RowsWith(c, ABSENT)
        IN  (Returned(c) /\ nulls # {}) =>
                \E k \in DOMAIN Tally(c) \ Booleans : Tally(c)[k] >= 1

\* C8: two invocations that receive the same upstream response return the
\* same outcome, whatever their event and context and whatever other
\* invocations ran before them or run concurrently with them.
C8_ResponseAlone ==
    \A i, j \in Finished :
        calls[i].resp = calls[j].resp => calls[i].out = calls[j].out

C8_Witness ==
    \E i, j \in Finished :
        /\ i = 1 /\ j = 2 /\ Len(calls) = 2
        /\ calls[j].overlapped
        /\ calls[i].event # calls[j].event
        /\ calls[i].context # calls[j].context
        /\ calls[i].resp = calls[j].resp
        /\ Returned(calls[j])
        /\ DOMAIN Tally(calls[j]) = Booleans

\* C9: the count of a group is the number of its records whose id is not
\* null (the group size when all have one); a record with a null id still
\* contributes its completed value as a key, so a group of only null-id
\* records is reported with count 0.
C9_CountsNonNullIds ==
    \A n \in Finished :
        LET c == calls[n] IN
        Returned(c) =>
            /\ \A v \in DOMAIN Tally(c) :
                  /\ Tally(c)[v] =
                        Cardinality({i \in RowsWith(c, v) : HasId(c.resp.body[i])})
                  /\ (\A i \in RowsWith(c, v) : HasId(c.resp.body[i])) =>
                        Tally(c)[v] = Cardinality(RowsWith(c, v))
            /\ \A v \in Booleans : RowsWith(c, v) # {} => v \in DOMAIN Tally(c)

C9_Witness ==
    \E n \in Finished :
        /\ Returned(calls[n])
        /\ "true" \in DOMAIN Tally(calls[n])
        /\ Tally(calls[n])["true"] = 0
        /\ "false" \in DOMAIN Tally(calls[n])
        /\ Tally(calls[n])["false"] = 1

\* C10: URI is resolved once, at load, and never reassigned: every
\* invocation fetches that same URL, also when the URI variable is set,
\* changed or unset before or during it.
C10_URIFixed ==
    [][ /\ URI' = URI
        /\ \A n \in DOMAIN calls' : calls'[n].url = URI ]_vars

\* The first invocation started under the load-time environment and is still
\* in flight; the variable was then changed, a second invocation started
\* and finished, and the variable was removed.
C10_Witness ==
    /\ Len(calls) = 2
    /\ calls[1].pc = "get" /\ calls[2].pc = "done"
    /\ calls[1].environ = loadEnv
    /\ calls[2].environ \notin {loadEnv, UNSET, ""}
    /\ environ = UNSET
    /\ calls[1].fetched = <<URI>> /\ calls[2].fetched = <<URI>>

====
